---- MODULE Spec2Model ----
(***************************************************************************)
(* A model of break_tracker.py: the break/snooze session loop of           *)
(* run_break, the daily data file (load_break_data / save_break_data),     *)
(* the report of yesterday's record (check_and_send_yesterday_report,     *)
(* send_daily_email) and main's dispatch.                                  *)
(*                                                                         *)
(* Calendar dates are day numbers (the code only compares them for         *)
(* equality and subtracts one day); the wall clock is a count of seconds.  *)
(* The date may roll over at any point of an execution (DayTick).          *)
(* The configuration file is taken to exist (ensure_config has run once).  *)
(***************************************************************************)
EXTENDS Integers, Sequences, FiniteSets, TLC

\* ------------------------------------------------------------------ bounds
MaxMinutes == 2      \* largest duration requested on the command line or typed
MaxSnooze == 2       \* snoozes taken in one session
MaxRuns == 3         \* invocations of the program in one behaviour
MaxDay == 2          \* the calendar runs over the days 0..MaxDay
MaxWait == 90        \* longest the user lets the prompt wait, in seconds
Gap == 1000          \* invocations start on multiples of Gap seconds

\* -------------------------------------------------------- program constants
SecPerMin == 60              \* remaining = minutes * 60 ; total_seconds() / 60
DefaultSnoozeMinutes == 5    \* DEFAULT_CONFIG["default_snooze_minutes"]

Procs == {1, 2}

VARIABLES
  today,                \* datetime.now() as a calendar day
  now,                  \* datetime.now() as seconds of wall clock
  cfg,                  \* the configuration record (config.yaml)
  file,                 \* break_data.json: <<>> when absent, else <<record>>
  pc,                   \* per process: "idle", "checked", "countdown", "prompt"
  argv,                 \* per process: sys.argv[1], or NoArg
  data,                 \* run_break's local data
  break_start,          \* run_break's local break_start
  minutes,              \* run_break's local minutes
  remaining,            \* run_break's local remaining
  snooze_count,         \* run_break's local snooze_count
  total_break_minutes,  \* run_break's local total_break_minutes
  note,                 \* per process: the last desktop notification fired
  mail,                 \* what send_daily_email did in the latest invocation
  durs,                 \* history: the durations requested in the session
  last,                 \* history: how the process's last session ended
  hist,                 \* history: the events appended today, in save order
  sentFor,              \* history: per record date, what each call of
                        \* send_daily_email for it met
  noops,                \* history: report checks that found the record sent
  checkedOn,            \* history: the day of the invocation's report check
  overlapped,           \* history: two sessions were in progress at once
  runs                  \* invocations so far

vars == <<today, now, cfg, file, pc, argv, data, break_start, minutes,
          remaining, snooze_count, total_break_minutes, note, mail, durs,
          last, hist, sentFor, noops, checkedOn, overlapped, runs>>

locals == <<data, break_start, minutes, remaining, snooze_count,
            total_break_minutes>>

\* ------------------------------------------------------------- pure helpers
RECURSIVE Sum(_)
Sum(s) == IF s = <<>> THEN 0 ELSE Head(s) + Sum(Tail(s))

RECURSIVE SumMinutes(_)
SumMinutes(bs) == IF bs = <<>> THEN 0 ELSE Head(bs).minutes + SumMinutes(Tail(bs))

\* Python's int(x / 60) for a float x: truncation toward zero.
TruncDiv(a, b) == IF a >= 0 THEN a \div b ELSE -((-a) \div b)

NoArg == <<"<none>">>
NoRecord == [date |-> -1, total_minutes |-> 0, breaks |-> <<>>, report_sent |-> FALSE]
NoNote == [title |-> "none", ordinal |-> 0, minutes |-> 0]
NoMail == [called |-> FALSE, smtp |-> 0, lines |-> <<>>, raised |-> FALSE,
           fault |-> "none", minutes |-> 0]
NoLast == [how |-> "none", durs |-> <<>>, start |-> 0, t |-> 0]

\* load_break_data: the stored record when it is dated today, else a fresh one.
FreshRecord(day) ==
  [date |-> day, total_minutes |-> 0, breaks |-> <<>>, report_sent |-> FALSE]

\* (variant: the stored record is kept and only re-dated)
LoadStale(f, day) ==
  IF f # <<>> THEN [f[1] EXCEPT !.date = day] ELSE FreshRecord(day)

LoadBreakData(f, day) ==
  IF f # <<>> /\ f[1].date = day THEN f[1] ELSE FreshRecord(day)

\* ------------------------------------------------------------ typed text
\* Text typed by the user is a sequence of characters.
Digits == <<"0", "1", "2", "3", "4", "5", "6", "7", "8", "9">>

IsDigit(c) == \E i \in 1..Len(Digits) : Digits[i] = c

DigitValue(c) == (CHOOSE i \in 1..Len(Digits) : Digits[i] = c) - 1

\* str.lower(), on the letters the inputs use
Lower(s) ==
  [i \in 1..Len(s) |-> IF s[i] = "S" THEN "s" ELSE IF s[i] = "X" THEN "x" ELSE s[i]]

\* str.strip(): leading and trailing blanks removed
RECURSIVE StripLeft(_)
StripLeft(s) == IF s # <<>> /\ Head(s) = " " THEN StripLeft(Tail(s)) ELSE s

RECURSIVE StripRight(_)
StripRight(s) ==
  IF s # <<>> /\ s[Len(s)] = " " THEN StripRight(SubSeq(s, 1, Len(s) - 1)) ELSE s

Strip(s) == StripRight(StripLeft(s))

RECURSIVE DigitsValue(_)
DigitsValue(s) ==
  IF s = <<>> THEN 0 ELSE 10 * DigitsValue(SubSeq(s, 1, Len(s) - 1)) + DigitValue(s[Len(s)])

AllDigits(s) == s # <<>> /\ \A i \in 1..Len(s) : IsDigit(s[i])

\* int(text): blanks around it are ignored, one sign is allowed, then digits;
\* anything else raises ValueError (ok = FALSE).
ParseInt(text) ==
  LET s == Strip(text)
      signed == s # <<>> /\ Head(s) \in {"-", "+"}
      body == IF signed THEN Tail(s) ELSE s
  IN IF AllDigits(body)
     THEN [ok |-> TRUE,
           value |-> IF signed /\ Head(s) = "-" THEN -DigitsValue(body) ELSE DigitsValue(body)]
     ELSE [ok |-> FALSE, value |-> 0]

\* the decimal text of a small natural number
NumText(n) == <<Digits[n + 1]>>

\* ------------------------------------------------------------- run_break
\* (variant: round() where the code has int())
ElapsedMinutesRounded(start, t) == TruncDiv(t - start + SecPerMin \div 2, SecPerMin)

\* int((datetime.now() - break_start).total_seconds() / 60)
ElapsedMinutes(start, t) == TruncDiv(t - start, SecPerMin)

\* The notification fired when a countdown expires.
Notification(mins, snoozes, total) ==
  IF snoozes = 0
  THEN [title |-> "Break's over!", ordinal |-> 0, minutes |-> mins]
  ELSE [title |-> "Snooze over!", ordinal |-> snoozes + 1, minutes |-> total]

BreakEvent(start, total, snoozes) ==
  [start |-> start, minutes |-> total, snoozes |-> snoozes]

\* (variant: the day's total is assigned, not added to)
SavedRecordAssign(d, start, total, snoozes) ==
  [d EXCEPT !.total_minutes = total,
            !.breaks = Append(@, BreakEvent(start, total, snoozes))]

\* (variant: the day's total is left as it was)
SavedRecordNoTotal(d, start, total, snoozes) ==
  [d EXCEPT !.breaks = Append(@, BreakEvent(start, total, snoozes))]

\* data["total_minutes"] += total ; data["breaks"].append(event)
SavedRecord(d, start, total, snoozes) ==
  [d EXCEPT !.total_minutes = @ + total,
            !.breaks = Append(@, BreakEvent(start, total, snoozes))]

\* (variant: the total is replaced by the new duration)
SnoozeTotalReplaced(total, d) == d

\* total_break_minutes += minutes
SnoozeTotal(total, d) == total + d

\* (variant: the prompt's cancel handled like the countdown's)
PromptCancelTotalElapsed(total, start, t) == ElapsedMinutes(start, t)

\* except KeyboardInterrupt at the prompt: the loop is left and the total
\* stays what it was.
PromptCancelTotal(total, start, t) == total

\* ------------------------------------------------------ send_daily_email
\* What the SMTP session does: "ok", or the exception it raises while
\* connecting (SMTPConnectError, OSError), authenticating
\* (SMTPAuthenticationError) or sending (SMTPDataError).
Faults == {"ok", "SMTPConnectError", "OSError", "SMTPAuthenticationError", "SMTPDataError"}

\* (variant: except smtplib.SMTPException)
CaughtSmtpOnly(e) == e \in {"SMTPConnectError", "SMTPAuthenticationError", "SMTPDataError"}

\* except Exception: every one of these classes derives from Exception.
Caught(e) == e \in {"SMTPConnectError", "OSError", "SMTPAuthenticationError", "SMTPDataError"}

\* str(e)
ErrorMessage(e) ==
  CASE e = "SMTPConnectError" -> "Connection failed"
    [] e = "OSError" -> "Network is unreachable"
    [] e = "SMTPAuthenticationError" -> "(535, 'Authentication failed')"
    [] e = "SMTPDataError" -> "(554, 'Transaction failed')"
    [] OTHER -> ""

SendDailyEmail(c, yesterday_minutes, fault) ==
  IF ~c.enabled
  THEN [called |-> TRUE, smtp |-> 0, lines |-> <<>>, raised |-> FALSE,
        fault |-> "none", minutes |-> yesterday_minutes]
  ELSE IF fault = "ok"
  THEN [called |-> TRUE, smtp |-> 1,
        lines |-> << [kind |-> "Daily report sent", text |-> "", minutes |-> yesterday_minutes] >>,
        raised |-> FALSE, fault |-> fault, minutes |-> yesterday_minutes]
  ELSE IF Caught(fault)
  THEN [called |-> TRUE, smtp |-> 1,
        lines |-> << [kind |-> "Failed to send email", text |-> ErrorMessage(fault), minutes |-> 0] >>,
        raised |-> FALSE, fault |-> fault, minutes |-> yesterday_minutes]
  ELSE [called |-> TRUE, smtp |-> 1, lines |-> <<>>, raised |-> TRUE,
        fault |-> fault, minutes |-> yesterday_minutes]

\* ------------------------------------------- check_and_send_yesterday_report
\* (variant: the date is compared with today's)
ReportPendingToday(f, day) ==
  f # <<>> /\ f[1].date = day /\ ~f[1].report_sent

\* data.get("date") == yesterday and not data.get("report_sent", False)
ReportPending(f, day) ==
  f # <<>> /\ f[1].date = day - 1 /\ ~f[1].report_sent

\* (variant: marked only when the email went out)
MarkSentIfDelivered(d, result) ==
  [d EXCEPT !.report_sent = (result.lines # <<>> /\ result.lines[1].kind = "Daily report sent")]

\* data["report_sent"] = True, whatever send_daily_email did
MarkSent(d, result) == [d EXCEPT !.report_sent = TRUE]

\* ------------------------------------------------------------------ state
InitWith(configs) ==
  /\ today = 0
  /\ now = 0
  /\ cfg \in configs
  /\ file = <<>>
  /\ pc = [p \in Procs |-> "idle"]
  /\ argv = [p \in Procs |-> NoArg]
  /\ data = [p \in Procs |-> NoRecord]
  /\ break_start = [p \in Procs |-> 0]
  /\ minutes = [p \in Procs |-> 0]
  /\ remaining = [p \in Procs |-> 0]
  /\ snooze_count = [p \in Procs |-> 0]
  /\ total_break_minutes = [p \in Procs |-> 0]
  /\ note = [p \in Procs |-> NoNote]
  /\ mail = NoMail
  /\ durs = [p \in Procs |-> <<>>]
  /\ last = [p \in Procs |-> NoLast]
  /\ hist = <<>>
  /\ sentFor = [d \in 0..MaxDay |-> <<>>]
  /\ noops = 0
  /\ checkedOn = [p \in Procs |-> 0]
  /\ overlapped = FALSE
  /\ runs = 0

\* Email as DEFAULT_CONFIG has it (disabled); the snooze length as configured.
Init == InitWith([enabled : {FALSE}, default_snooze_minutes : 1..MaxMinutes])

\* The snooze length as DEFAULT_CONFIG has it; email enabled or not.
InitReport == InitWith([enabled : BOOLEAN, default_snooze_minutes : {DefaultSnoozeMinutes}])

AllIdle == \A p \in Procs : pc[p] = "idle"

InSession(p) == pc[p] \in {"countdown", "prompt"}

\* The next instant at which the user starts the program: time passes between
\* two invocations, and one later instant stands for all of them.
NextSlot(t) == (t \div Gap + 1) * Gap

\* The midnight at which the date changes; it may fall anywhere.
DayTick ==
  /\ today < MaxDay
  /\ today' = today + 1
  /\ hist' = <<>>
  /\ UNCHANGED <<now, cfg, file, pc, argv, locals, note, mail, durs, last,
                 sentFor, noops, checkedOn, overlapped, runs>>

\* main up to and including check_and_send_yesterday_report, started with the
\* command-line argument a; fault is what the SMTP session would do.
MainCheck(p, a, fault) ==
  /\ pc[p] = "idle"
  /\ runs < MaxRuns
  /\ runs' = runs + 1
  /\ now' = IF AllIdle THEN NextSlot(now) ELSE now
  /\ argv' = [argv EXCEPT ![p] = a]
  /\ checkedOn' = [checkedOn EXCEPT ![p] = today]
  /\ last' = [last EXCEPT ![p] = NoLast]
  /\ IF ReportPending(file, today)
     THEN LET result == SendDailyEmail(cfg, file[1].total_minutes, fault)
          IN /\ mail' = result
             /\ sentFor' = [sentFor EXCEPT ![file[1].date] = Append(@, result.fault)]
             /\ IF result.raised
                THEN /\ pc' = [pc EXCEPT ![p] = "idle"]
                     /\ file' = file
                ELSE /\ pc' = [pc EXCEPT ![p] = "checked"]
                     /\ file' = << MarkSent(file[1], result) >>
             /\ noops' = noops
     ELSE /\ mail' = NoMail
          /\ pc' = [pc EXCEPT ![p] = "checked"]
          /\ noops' = IF file # <<>> /\ file[1].date = today - 1 THEN noops + 1 ELSE noops
          /\ UNCHANGED <<file, sentFor>>
  /\ UNCHANGED <<today, cfg, locals, note, durs, hist, overlapped>>

\* main, no argument or a stats alias: show_today_stats, then return.
StatsArg(a) == a = NoArg \/ (~ParseInt(a).ok /\ a \in {<<"s", "t", "a", "t", "s">>, <<"s", "t", "a", "t", "u", "s">>, <<"s">>})

MainStats(p) ==
  /\ pc[p] = "checked"
  /\ StatsArg(argv[p])
  /\ pc' = [pc EXCEPT ![p] = "idle"]
  /\ argv' = [argv EXCEPT ![p] = NoArg]
  /\ UNCHANGED <<today, now, cfg, file, locals, note, mail, durs, last, hist,
                 sentFor, noops, checkedOn, overlapped, runs>>

\* main, a non-positive number or an unknown word: an error line, then return.
MainReject(p) ==
  /\ pc[p] = "checked"
  /\ ~StatsArg(argv[p])
  /\ ~(ParseInt(argv[p]).ok /\ ParseInt(argv[p]).value > 0)
  /\ pc' = [pc EXCEPT ![p] = "idle"]
  /\ argv' = [argv EXCEPT ![p] = NoArg]
  /\ UNCHANGED <<today, now, cfg, file, locals, note, mail, durs, last, hist,
                 sentFor, noops, checkedOn, overlapped, runs>>

\* main with a positive number: run_break up to the first countdown.
RunBreakStart(p) ==
  /\ pc[p] = "checked"
  /\ argv[p] # NoArg
  /\ ParseInt(argv[p]).ok
  /\ ParseInt(argv[p]).value > 0
  /\ LET m == ParseInt(argv[p]).value
     IN /\ data' = [data EXCEPT ![p] = LoadBreakData(file, today)]
        /\ break_start' = [break_start EXCEPT ![p] = now]
        /\ snooze_count' = [snooze_count EXCEPT ![p] = 0]
        /\ total_break_minutes' = [total_break_minutes EXCEPT ![p] = m]
        /\ minutes' = [minutes EXCEPT ![p] = m]
        /\ remaining' = [remaining EXCEPT ![p] = m * SecPerMin]
        /\ durs' = [durs EXCEPT ![p] = <<m>>]
  /\ pc' = [pc EXCEPT ![p] = "countdown"]
  /\ argv' = [argv EXCEPT ![p] = NoArg]
  /\ note' = [note EXCEPT ![p] = NoNote]
  /\ overlapped' = (overlapped \/ \E q \in Procs \ {p} : InSession(q))
  /\ UNCHANGED <<today, now, cfg, file, mail, last, hist, sentFor, noops,
                 checkedOn, runs>>

\* One turn of the countdown loop: time.sleep(1) ; remaining -= 1
CountdownTick(p) ==
  /\ pc[p] = "countdown"
  /\ remaining[p] > 0
  /\ remaining' = [remaining EXCEPT ![p] = @ - 1]
  /\ now' = now + 1
  /\ UNCHANGED <<today, cfg, file, pc, argv, data, break_start, minutes,
                 snooze_count, total_break_minutes, note, mail, durs, last,
                 hist, sentFor, noops, checkedOn, overlapped, runs>>

\* The countdown is over: the notification is sent and the prompt is shown.
CountdownExpire(p) ==
  /\ pc[p] = "countdown"
  /\ remaining[p] = 0
  /\ note' = [note EXCEPT ![p] =
                Notification(minutes[p], snooze_count[p], total_break_minutes[p])]
  /\ pc' = [pc EXCEPT ![p] = "prompt"]
  /\ UNCHANGED <<today, now, cfg, file, argv, locals, mail, durs, last, hist,
                 sentFor, noops, checkedOn, overlapped, runs>>

\* The end of run_break: the event is appended, the record saved, and the
\* process returns. last is history: the way the session ended and, for a
\* cancel signal, the seconds from the session's start to the signal.
Finish(p, how, total) ==
  /\ file' = << SavedRecord(data[p], break_start[p], total, snooze_count[p]) >>
  /\ hist' = Append(hist, [start |-> break_start[p], minutes |-> total,
                           snoozes |-> snooze_count[p]])
  /\ last' = [last EXCEPT ![p] = [how |-> how, durs |-> durs[p],
                                  start |-> break_start[p],
                                  t |-> IF how \in {"prompt_cancel", "countdown_cancel"}
                                        THEN now' - break_start[p] ELSE 0]]
  /\ pc' = [pc EXCEPT ![p] = "idle"]
  /\ data' = [data EXCEPT ![p] = NoRecord]
  /\ break_start' = [break_start EXCEPT ![p] = 0]
  /\ minutes' = [minutes EXCEPT ![p] = 0]
  /\ remaining' = [remaining EXCEPT ![p] = 0]
  /\ snooze_count' = [snooze_count EXCEPT ![p] = 0]
  /\ total_break_minutes' = [total_break_minutes EXCEPT ![p] = 0]
  /\ durs' = [durs EXCEPT ![p] = <<>>]
  /\ note' = [note EXCEPT ![p] = NoNote]

\* The loop goes round: a snooze of d minutes.
Snooze(p, d) ==
  /\ snooze_count[p] < MaxSnooze
  /\ minutes' = [minutes EXCEPT ![p] = d]
  /\ snooze_count' = [snooze_count EXCEPT ![p] = @ + 1]
  /\ total_break_minutes' = [total_break_minutes EXCEPT ![p] = SnoozeTotal(@, d)]
  /\ remaining' = [remaining EXCEPT ![p] = d * SecPerMin]
  /\ durs' = [durs EXCEPT ![p] = Append(@, d)]
  /\ pc' = [pc EXCEPT ![p] = "countdown"]
  /\ UNCHANGED <<file, data, break_start, note, last, hist>>

\* input() returns text after w seconds.
PromptAnswer(p, text, w) ==
  /\ pc[p] = "prompt"
  /\ now' = now + w
  /\ LET response == Lower(Strip(text))
         n == ParseInt(response)
     IN IF response = <<>>
        THEN Finish(p, "enter", total_break_minutes[p])
        ELSE IF response = <<"s">>
        THEN Snooze(p, cfg.default_snooze_minutes)
        ELSE IF n.ok /\ n.value > 0
        THEN Snooze(p, n.value)
        ELSE Finish(p, "declined", total_break_minutes[p])
  /\ UNCHANGED <<today, cfg, argv, mail, sentFor, noops, checkedOn,
                 overlapped, runs>>

\* The cancel signal arrives at the prompt, after w seconds.
PromptCancel(p, w) ==
  /\ pc[p] = "prompt"
  /\ now' = now + w
  /\ Finish(p, "prompt_cancel",
            PromptCancelTotal(total_break_minutes[p], break_start[p], now'))
  /\ UNCHANGED <<today, cfg, argv, mail, sentFor, noops, checkedOn,
                 overlapped, runs>>

\* The cancel signal arrives during a countdown (or while the notification
\* is being sent).
CountdownCancel(p) ==
  /\ pc[p] = "countdown"
  /\ now' = now
  /\ Finish(p, "countdown_cancel", ElapsedMinutes(break_start[p], now))
  /\ UNCHANGED <<today, cfg, argv, mail, sentFor, noops, checkedOn,
                 overlapped, runs>>

\* ------------------------------------------------------------- the inputs
Args ==
  {NoArg, <<"s", "t", "a", "t", "s">>, <<"x">>, <<"0">>}
    \cup {NumText(n) : n \in 1..MaxMinutes}

Responses ==
  {<<>>, <<" ">>, <<"s">>, <<" ", "S">>, <<"x">>, <<"0">>, <<"-", "1">>}
    \cup {NumText(n) : n \in 1..MaxMinutes}

Waits == {0, MaxWait}

\* One invocation by one user: a whole session, with every kind of answer.
Next ==
  \/ \E a \in Args : runs = 0 /\ MainCheck(1, a, "ok")
  \/ MainStats(1)
  \/ MainReject(1)
  \/ RunBreakStart(1)
  \/ CountdownTick(1)
  \/ CountdownExpire(1)
  \/ \E text \in Responses, w \in Waits : PromptAnswer(1, text, w)
  \/ \E w \in Waits : PromptCancel(1, w)
  \/ CountdownCancel(1)

Spec == Init /\ [][Next]_vars

\* One user at one terminal, on one day: each invocation starts after the one
\* before has returned. The sessions are of one minute, the snoozes too.
ShortArgs == {NumText(1)}

ShortResponses == {<<>>, <<"x">>, <<"0">>, <<"s">>, NumText(1)}

NextDay ==
  \/ \E a \in ShortArgs : AllIdle /\ MainCheck(1, a, "ok")
  \/ RunBreakStart(1)
  \/ CountdownTick(1)
  \/ CountdownExpire(1)
  \/ \E text \in ShortResponses : PromptAnswer(1, text, 0)
  \/ PromptCancel(1, 0)
  \/ CountdownCancel(1)

InitDay == InitWith([enabled : {FALSE}, default_snooze_minutes : {1}])

SpecDay == InitDay /\ [][NextDay]_vars

\* One user at one terminal over several days: the date changes at any point,
\* the program is started to show the statistics or for a break of one minute
\* that ends at the first prompt or is cancelled.
ReportArgs == {NoArg, NumText(1)}

NextDays ==
  \/ DayTick
  \/ \E a \in ReportArgs, fault \in Faults : AllIdle /\ MainCheck(1, a, fault)
  \/ MainStats(1)
  \/ RunBreakStart(1)
  \/ CountdownTick(1)
  \/ CountdownExpire(1)
  \/ PromptAnswer(1, <<>>, 0)
  \/ PromptCancel(1, 0)
  \/ CountdownCancel(1)

SpecDays == InitReport /\ [][NextDays]_vars

\* Two terminals on one day: a second invocation may start while the first
\* is in its session.
NextRace ==
  \/ \E p \in Procs : runs < Cardinality(Procs) /\ MainCheck(p, NumText(1), "ok")
  \/ \E p \in Procs : RunBreakStart(p)
  \/ \E p \in Procs : CountdownTick(p)
  \/ \E p \in Procs : CountdownExpire(p)
  \/ \E p \in Procs : PromptAnswer(p, <<>>, 0)

InitRace == InitWith([enabled : {FALSE}, default_snooze_minutes : {DefaultSnoozeMinutes}])

SpecRace == InitRace /\ [][NextRace]_vars

\* ================================================================ claims
LastBreak == file[1].breaks[Len(file[1].breaks)]

EndedAtPrompt(p) == last[p].how \in {"enter", "declined"}

\* C1: a session of requested durations d0, d1..dn that the user ends at the
\* prompt (Enter, a word, a non-positive number) with no cancel signal appends
\* an event whose minutes are d0 + d1 + ... + dn and whose snoozes are n,
\* whatever time has gone by.
C1_NominalTotal ==
  \A p \in Procs :
    EndedAtPrompt(p) =>
      /\ file # <<>>
      /\ LastBreak.minutes = Sum(last[p].durs)
      /\ LastBreak.snoozes = Len(last[p].durs) - 1

\* C1's case: two snoozes of different lengths, then the break is ended at the
\* prompt.
C1_Witness ==
  /\ EndedAtPrompt(1)
  /\ Len(last[1].durs) = 3
  /\ last[1].durs[2] # last[1].durs[3]
  /\ file # <<>>
  /\ LastBreak.minutes = Sum(last[1].durs)

\* C2: a cancel signal during a countdown, t seconds after the session's
\* start, records floor(t / 60) minutes in place of the nominal sum, and keeps
\* the snooze count reached.
C2_CountdownCancel ==
  \A p \in Procs :
    last[p].how = "countdown_cancel" =>
      /\ file # <<>>
      /\ LastBreak.minutes = last[p].t \div SecPerMin
      /\ LastBreak.snoozes = Len(last[p].durs) - 1

\* C2's case: the signal arrives during a snooze countdown, more than one
\* minute into the session, and the minutes recorded are not the nominal sum.
C2_Witness ==
  /\ last[1].how = "countdown_cancel"
  /\ Len(last[1].durs) >= 2
  /\ last[1].t >= SecPerMin
  /\ LastBreak.minutes # Sum(last[1].durs)
  /\ LastBreak.minutes = last[1].t \div SecPerMin

\* C3, as stated: every session ended by a cancel signal, at the prompt or
\* during a countdown, records the elapsed wall-clock minutes.
C3_InterruptedRecordsElapsed ==
  \A p \in Procs :
    last[p].how \in {"prompt_cancel", "countdown_cancel"} =>
      /\ file # <<>>
      /\ LastBreak.minutes = last[p].t \div SecPerMin

\* C3, amended: a cancel signal at the prompt ends the session, which records
\* the sum of the nominal durations; only a cancel signal during a countdown
\* records the elapsed wall-clock minutes.
C3_PromptCancelRecordsNominal ==
  \A p \in Procs :
    /\ last[p].how = "prompt_cancel" =>
         /\ pc[p] = "idle"
         /\ file # <<>>
         /\ LastBreak.minutes = Sum(last[p].durs)
         /\ LastBreak.snoozes = Len(last[p].durs) - 1
    /\ last[p].how = "countdown_cancel" =>
         /\ pc[p] = "idle"
         /\ file # <<>>
         /\ LastBreak.minutes = last[p].t \div SecPerMin

\* C3's case: the signal arrives at the prompt when the elapsed minutes differ
\* from the nominal sum.
C3_Witness ==
  /\ last[1].how = "prompt_cancel"
  /\ last[1].t \div SecPerMin # Sum(last[1].durs)
  /\ LastBreak.minutes = Sum(last[1].durs)

\* C9: the first notification of a session is the plain "break's over"; the
\* one fired when the k-th snooze expires reports the cumulative nominal
\* minutes d0 + ... + dk and the ordinal k.
C9_NotificationOrdinal ==
  \A p \in Procs :
    pc[p] = "prompt" =>
      IF Len(durs[p]) = 1
      THEN note[p].title = "Break's over!"
      ELSE /\ note[p].title = "Snooze over!"
           /\ note[p].minutes = Sum(durs[p])
           /\ note[p].ordinal = Len(durs[p]) - 1

\* C7: after any sequence of sessions on one day, one after the other and
\* ended in any way, the stored record holds one event per session in session
\* order, the earlier events as they were, and total_minutes is the sum of
\* the events' minutes.
C7_OneEventPerSession ==
  IF file = <<>>
  THEN hist = <<>>
  ELSE /\ file[1].breaks = hist
       /\ file[1].total_minutes = SumMinutes(file[1].breaks)

\* C7's case: three sessions have been saved, one with a snooze, one cancelled
\* in its first minute, and the day's total counts them all.
C7_Witness ==
  /\ file # <<>>
  /\ Len(file[1].breaks) = 3
  /\ \E i \in 1..3 : file[1].breaks[i].snoozes > 0
  /\ \E i \in 1..3 : file[1].breaks[i].minutes = 0
  /\ file[1].total_minutes = SumMinutes(hist)
  /\ file[1].total_minutes > 1

\* C4: for one stored record, send_daily_email is called at most once: the
\* first report check marks the record report_sent and saves it, whether the
\* email went out, failed or was disabled, and later checks do nothing.
C4_AtMostOneReport ==
  \A d \in 0..MaxDay :
    /\ Len(sentFor[d]) <= 1
    /\ (sentFor[d] # <<>> /\ file # <<>> /\ file[1].date = d) => file[1].report_sent

\* C4's case: the one send for a record failed, the record is still stored,
\* marked, and a later report check has found it so and done nothing.
C4_Witness ==
  /\ file # <<>>
  /\ file[1].report_sent
  /\ file[1].date = today - 1
  /\ sentFor[file[1].date] \in {<<"SMTPConnectError">>, <<"SMTPAuthenticationError">>}
  /\ noops >= 1

\* C5: load_break_data on a date other than the stored record's, or with no
\* record stored, returns a record of today with total_minutes 0 and no
\* breaks, nothing of the stored record; on the stored record's date it
\* returns the stored record as it is.
C5_LoadFreshOrStored ==
  [][\A p \in Procs :
       (pc[p] = "checked" /\ pc'[p] = "countdown") =>
         IF file # <<>> /\ file[1].date = today
         THEN data'[p] = file[1]
         ELSE /\ data'[p].date = today
              /\ data'[p].total_minutes = 0
              /\ data'[p].breaks = <<>>
              /\ ~data'[p].report_sent]_vars

\* C5's case: a session has loaded a fresh record of today while the stored
\* record, of an earlier day, holds breaks and minutes.
C5_Witness ==
  \E p \in Procs :
    /\ pc[p] = "countdown"
    /\ file # <<>>
    /\ file[1].date < today
    /\ file[1].total_minutes > 0
    /\ file[1].breaks # <<>>
    /\ data[p] = [date |-> today, total_minutes |-> 0, breaks |-> <<>>, report_sent |-> FALSE]

\* C6: send_daily_email lets no send failure out: disabled, it makes no SMTP
\* connection and returns; enabled, an exception raised while connecting,
\* authenticating or sending is caught, one failure line with the error's
\* message is printed and the success line is not.
C6_SendFailureSwallowed ==
  mail.called =>
    /\ ~mail.raised
    /\ ~cfg.enabled => (mail.smtp = 0 /\ mail.lines = <<>>)
    /\ (cfg.enabled /\ mail.fault # "ok") =>
         /\ Len(mail.lines) = 1
         /\ mail.lines[1].kind = "Failed to send email"
         /\ mail.lines[1].text = ErrorMessage(mail.fault)
    /\ (cfg.enabled /\ mail.fault = "ok") =>
         /\ mail.smtp = 1
         /\ Len(mail.lines) = 1
         /\ mail.lines[1].kind = "Daily report sent"

\* C6's case: email is enabled and connecting fails below SMTP (an OSError);
\* the call has returned after its one failure line.
C6_Witness ==
  /\ mail.called
  /\ cfg.enabled
  /\ mail.fault = "OSError"
  /\ ~mail.raised
  /\ mail.lines = << [kind |-> "Failed to send email", text |-> "Network is unreachable", minutes |-> 0] >>

\* A session's save: the step that ends it.
Saves(p) == InSession(p) /\ pc'[p] = "idle"

\* C8, as stated: when a session's save overwrites a stored record of a day
\* before today, a report of that record has been attempted and the record is
\* marked report_sent.
C8_OverwrittenWasReported ==
  [][\A p \in Procs :
       (Saves(p) /\ file # <<>> /\ file[1].date < today) =>
         (file[1].report_sent /\ sentFor[file[1].date] # <<>>)]_vars

\* C8, amended: when a session's save overwrites a stored record whose date is
\* the day before the invocation's report check, a report of that record has
\* been attempted and the record is marked report_sent.
C8_YesterdayWasReported ==
  [][\A p \in Procs :
       (Saves(p) /\ file # <<>> /\ file[1].date = checkedOn[p] - 1) =>
         (file[1].report_sent /\ sentFor[file[1].date] # <<>>)]_vars

\* C8's case: a session has saved over the record of the day before its
\* report check, which had been reported.
C8_Witness ==
  \E p \in Procs :
    /\ last[p].how # "none"
    /\ checkedOn[p] >= 1
    /\ sentFor[checkedOn[p] - 1] # <<>>
    /\ file # <<>>
    /\ file[1].date = checkedOn[p]
    /\ ~file[1].report_sent

\* C10: two invocations whose sessions overlap on one day lose an update:
\* once both have ended, the stored record holds the event of the one that
\* saved last and lacks the other's event and its minutes.
C10_LostUpdate ==
  (overlapped /\ AllIdle) =>
    /\ file # <<>>
    /\ Len(file[1].breaks) < Len(hist)
    /\ LastBreak = hist[Len(hist)]
    /\ file[1].total_minutes = SumMinutes(file[1].breaks)
    /\ file[1].total_minutes < SumMinutes(hist)

\* C10's case: both sessions loaded before either saved, both have ended, and
\* the stored record holds one event of the two.
C10_Witness ==
  /\ overlapped
  /\ AllIdle
  /\ Len(hist) = 2
  /\ Len(file[1].breaks) = 1
  /\ file[1].total_minutes = 1

====
